---- MODULE Spec2Model ----
(***************************************************************************)
(* add_file_to_project.py: registers HealthKitPermissionView.swift in the  *)
(* Xcode project file by four anchor-based insertions.                     *)
(*                                                                         *)
(* Text is modelled as a sequence of chunks.  Every chunk is the literal   *)
(* text it stands for (a TLA+ string), so the text of a manifest is the    *)
(* concatenation of its chunks and its length is the sum of their lengths. *)
(* The chunks are chosen so that every literal piece of the four regular   *)
(* expressions lies inside one chunk; a regular expression is then decided *)
(* by which chunks follow which, and by whether a chunk holds a '}'.       *)
(* A position in the text is a chunk boundary: offset n is the position    *)
(* after the first n chunks.                                               *)
(***************************************************************************)
EXTENDS Naturals, Sequences, FiniteSets, TLC

VARIABLES file, urandom, uuid_calls, pc, content, file_ref_uuid, build_file_uuid,
          build_file_entry, file_ref_entry, group_entry, sources_entry,
          build_file_section, file_ref_section, views_group, sources_match,
          insert_pos, reads, writes

vars == <<file, urandom, uuid_calls, pc, content, file_ref_uuid, build_file_uuid,
          build_file_entry, file_ref_entry, group_entry, sources_entry,
          build_file_section, file_ref_section, views_group, sources_match,
          insert_pos, reads, writes>>

(* Largest number of chunks of the project file that is read. *)
MaxLen == 5

(* ----------------------------- identifiers ----------------------------- *)

UuidLen == 24

HexLower == <<"0", "1", "2", "3", "4", "5", "6", "7", "8", "9",
              "a", "b", "c", "d", "e", "f">>

HexUpperChars == {"0", "1", "2", "3", "4", "5", "6", "7", "8", "9",
                  "A", "B", "C", "D", "E", "F"}

(* uuid.uuid4() is UUID(bytes=os.urandom(16), version=4).  r is the 16    *)
(* random bytes as 32 hexadecimal digits (values 0..15), most significant  *)
(* first; the result is the UUID as its 32 digits.  The version overwrites *)
(* digit 13 with 4; the variant overwrites the two top bits of digit 17    *)
(* with 10, so that digit becomes 8, 9, a or b and keeps its two low bits. *)
(* The other 30 digits are the random ones.                                *)
Uuid4(r) ==
    [i \in 1..32 |-> IF i = 13 THEN 4
                     ELSE IF i = 17 THEN 8 + (r[i] % 4)
                     ELSE r[i]]

(* str(uuid): 8-4-4-4-12 lowercase hexadecimal digits with four dashes. *)
UuidStr(u) ==
    [i \in 1..36 |->
        IF i \in {9, 14, 19, 24} THEN "-"
        ELSE HexLower[u[i - Cardinality({d \in {9, 14, 19, 24} : d < i})] + 1]]

(* s.replace('-', '') *)
ReplaceDashes(s) == SelectSeq(s, LAMBDA c : c # "-")

(* ''.join(s) of a string: its characters joined by nothing. *)
JoinChars(s) == [i \in 1..Len(s) |-> s[i]]

(* s[:n] *)
SliceTo(s, n) == SubSeq(s, 1, IF Len(s) < n THEN Len(s) ELSE n)

(* c.upper() of one character *)
UpperChar(c) ==
    CASE c = "a" -> "A" [] c = "b" -> "B" [] c = "c" -> "C"
      [] c = "d" -> "D" [] c = "e" -> "E" [] c = "f" -> "F"
      [] OTHER -> c

Upper(s) == [i \in 1..Len(s) |-> UpperChar(s[i])]

(* The same without upper(). *)
MutGenerateUuidNoUpper(r) ==
    SliceTo(JoinChars(ReplaceDashes(UuidStr(Uuid4(r)))), UuidLen)

(* The same cut one character short. *)
MutGenerateUuidShort(r) ==
    Upper(SliceTo(JoinChars(ReplaceDashes(UuidStr(Uuid4(r)))), UuidLen - 1))

(* generate_uuid(), for the 16 bytes r that os.urandom gives to the        *)
(* uuid.uuid4() of the call: a string as the sequence of its characters.   *)
generate_uuid(r) ==
    Upper(SliceTo(JoinChars(ReplaceDashes(UuidStr(Uuid4(r)))), UuidLen))

(* A sequence of characters as one string (f-string interpolation). *)
RECURSIVE IdText(_)
IdText(s) == IF s = <<>> THEN "" ELSE Head(s) \o IdText(Tail(s))

(* The random bytes are sampled: draws 0..MaxDraw of the 2^128 values      *)
(* os.urandom(16) can give.                                                *)
MaxDraw == 63

(* Draw number s of os.urandom(16), as 32 hexadecimal digits.  The draws   *)
(* differ in digit 17 (all 16 values, so every variant digit 8, 9, a, b    *)
(* comes from four of them), in digit 13 (which the version overwrites),   *)
(* in digit 24 (the last one an identifier keeps), in digits 25..32 (which *)
(* an identifier drops) and, beyond draw 63, in digits 1..23.              *)
Urandom(s) ==
    LET v == s % 16
        x == (s \div 16) % 2
        t == (s \div 32) % 2
        a == (s \div 64) % 16
    IN  [i \in 1..32 |->
            IF i = 17 THEN v
            ELSE IF i = 13 THEN (v + 7 * x) % 16
            ELSE IF i < 24 THEN (a + 3 * i) % 16
            ELSE IF i = 24 THEN (1 + 13 * x) % 16
            ELSE (15 * t + i) % 16]

(* Values os.urandom(16) may give, for the identifier generator alone. *)
UrandomWide == {Urandom(s) : s \in 0..MaxDraw}

(* The values os.urandom(16) gives, in order, to the two uuid.uuid4()      *)
(* calls of one run of the script: twice the same value, or two different  *)
(* ones.  The patch uses the identifiers only as text put into the four    *)
(* lines, so one pair of each kind stands for the rest.                    *)
RunEntropy == {<<Urandom(9), Urandom(9)>>,
               <<Urandom(9), Urandom(62)>>}

(* ------------------------------- the text ------------------------------ *)

file_name == "HealthKitPermissionView.swift"

BeginBuildFileMarker == "/* Begin PBXBuildFile section */\n"

BeginFileRefMarker == "/* Begin PBXFileReference section */\n"

(* The opening of a group named Views, up to its isa line. *)
ViewsHead == "/* Views */ = {\n\t\t\tisa = PBXGroup;\n"

ChildrenOpen == "\t\t\tchildren = (\n"

(* A whole Sources build-phase record up to the opening of its file list. *)
SourcesPhaseHead == "/* Sources */ = {\n\t\t\tisa = PBXSourcesBuildPhase;\n\t\t\tbuildActionMask = 2147483647;\n\t\t\tfiles = (\n"

(* The end of a list and of the record that holds it. *)
RecordClose == "\t\t\t);\n\t\t};\n"

Chunks == {BeginBuildFileMarker, BeginFileRefMarker, ViewsHead, ChildrenOpen,
           SourcesPhaseHead, RecordClose}

(* The project files the script may find: every text of at most MaxLen chunks. *)
Manifests == UNION {[1..n -> Chunks] : n \in 0..MaxLen}

(* The build-file line with the two identifiers in each other's place. *)
MutFormatBuildFileEntrySwapped(fr, bf) ==
    "\t\t" \o IdText(fr) \o " /* " \o file_name
        \o " in Sources */ = {isa = PBXBuildFile; fileRef = " \o IdText(bf)
        \o " /* " \o file_name \o " */; };\n"

(* The f-strings of the four inserted lines; fr is the file-reference      *)
(* identifier and bf the build-file identifier.                            *)
FormatBuildFileEntry(fr, bf) ==
    "\t\t" \o IdText(bf) \o " /* " \o file_name
        \o " in Sources */ = {isa = PBXBuildFile; fileRef = " \o IdText(fr)
        \o " /* " \o file_name \o " */; };\n"

FormatFileRefEntry(fr) ==
    "\t\t" \o IdText(fr) \o " /* " \o file_name
        \o " */ = {isa = PBXFileReference; lastKnownFileType = sourcecode.swift; path = "
        \o file_name \o "; sourceTree = \"<group>\"; };\n"

FormatGroupEntry(fr) == "\t\t\t\t" \o IdText(fr) \o " /* " \o file_name \o " */,\n"

FormatSourcesEntry(bf) ==
    "\t\t\t\t" \o IdText(bf) \o " /* " \o file_name \o " in Sources */,\n"

(* Whether the chunk holds a '}', which [^}]+ cannot cross.  Of the chunks  *)
(* a run can meet, the record close holds one, and so do the build-file    *)
(* and file-reference lines of the run (their text ends with "; };\n");    *)
(* the markers, the heads and the two list lines hold none.                *)
HasClosingBrace(c) ==
    \/ c = RecordClose
    \/ c = build_file_entry
    \/ c = file_ref_entry

(* ------------------------------ re.search ------------------------------ *)

(* A match object: text[start:end] is the matched text. *)
Match(s, e) == [found |-> TRUE, start |-> s, end |-> e]

(* re.search returned None (also the value of a local not yet assigned). *)
None == [found |-> FALSE, start |-> 0, end |-> 0]

MinOf(S) == CHOOSE m \in S : \A n \in S : m <= n

MaxOf(S) == CHOOSE m \in S : \A n \in S : n <= m

(* The leftmost occurrence of a literal marker. *)
SearchLiteral(text, marker) ==
    LET at == {i \in 1..Len(text) : text[i] = marker}
    IN  IF at = {} THEN None ELSE Match(MinOf(at) - 1, MinOf(at))

(* The chunks j after chunk i that [^}]+ can reach from i: no chunk from   *)
(* i+1 to j-1 holds a '}'.                                                 *)
Reach(text, i) ==
    {j \in (i + 1)..Len(text) : \A k \in (i + 1)..(j - 1) : ~HasClosingBrace(text[k])}

(* The search run on the stored file instead of the current text. *)
MutSearchFileRefStale(text) == SearchLiteral(file, BeginFileRefMarker)

(* re.search(r'(/\* Begin PBXBuildFile section \*/\n)', content) *)
SearchBuildFile(text) == SearchLiteral(text, BeginBuildFileMarker)

(* re.search(r'(/\* Begin PBXFileReference section \*/\n)', content) *)
SearchFileRef(text) == SearchLiteral(text, BeginFileRefMarker)

(* The search run on the stored file instead of the current text. *)
MutSearchViewsStale(text) ==
    LET ends(i) == {j \in Reach(file, i) : file[j] = ChildrenOpen}
        at == {i \in 1..Len(file) : file[i] = ViewsHead /\ ends(i) # {}}
    IN  IF at = {} THEN None ELSE Match(MinOf(at) - 1, MaxOf(ends(MinOf(at))))

(* re.search(r'(/\* Views \*/ = {[^}]+children = \(\n)', content): the       *)
(* leftmost Views head from which [^}]+ reaches a children opener; [^}]+ is *)
(* greedy, so the match ends with the last opener it can reach.            *)
SearchViews(text) ==
    LET ends(i) == {j \in Reach(text, i) : text[j] = ChildrenOpen}
        at == {i \in 1..Len(text) : text[i] = ViewsHead /\ ends(i) # {}}
    IN  IF at = {} THEN None ELSE Match(MinOf(at) - 1, MaxOf(ends(MinOf(at))))

(* The last Sources head instead of the first. *)
MutSearchSourcesLast(text) ==
    LET at == {i \in 1..Len(text) : text[i] = SourcesPhaseHead}
    IN  IF at = {} THEN None ELSE Match(MaxOf(at) - 1, MaxOf(at))

(* re.search(r'(/\* Sources \*/ = {[^}]+isa = PBXSourcesBuildPhase;[^}]+files = \(\n)', *)
(* content): the leftmost Sources head, which holds a whole match; both    *)
(* [^}]+ are greedy, so the match ends with the last Sources head that the *)
(* first one reaches without crossing a '}'.                               *)
SearchSources(text) ==
    LET ends(i) == {i} \cup {j \in Reach(text, i) : text[j] = SourcesPhaseHead}
        at == {i \in 1..Len(text) : text[i] = SourcesPhaseHead}
    IN  IF at = {} THEN None ELSE Match(MinOf(at) - 1, MaxOf(ends(MinOf(at))))

(* content[:insert_pos] + entry + content[insert_pos:] *)
Splice(text, pos, entry) ==
    SubSeq(text, 1, pos) \o <<entry>> \o SubSeq(text, pos + 1, Len(text))

(* The entry put before the match instead of after it. *)
MutInsertAtStart(text, m, entry) ==
    IF m.found THEN Splice(text, m.start, entry) ELSE text

(* The entry put in whether or not there is a match: at the start of the  *)
(* text when there is none.                                                *)
MutInsertAlways(text, m, entry) == Splice(text, m.end, entry)

(* if match: insert_pos = match.end(); content = content[:insert_pos] + entry + content[insert_pos:] *)
InsertAfter(text, m, entry) ==
    IF m.found THEN Splice(text, m.end, entry) ELSE text

(* A sub-step that leaves the text alone when it already holds the entry. *)
MutAddBuildFileOnce(text, entry) ==
    IF \E i \in 1..Len(text) : text[i] = entry THEN text
    ELSE InsertAfter(text, SearchBuildFile(text), entry)

(* The four sub-steps as functions of the text and of the line to insert. *)
AddBuildFile(text, entry) == InsertAfter(text, SearchBuildFile(text), entry)

AddFileRef(text, entry) == InsertAfter(text, SearchFileRef(text), entry)

AddToViews(text, entry) == InsertAfter(text, SearchViews(text), entry)

AddToSources(text, entry) == InsertAfter(text, SearchSources(text), entry)

(* Sub-step k; entries are the four lines. *)
SubStep(k, text, entries) ==
    CASE k = 1 -> AddBuildFile(text, entries[1])
      [] k = 2 -> AddFileRef(text, entries[2])
      [] k = 3 -> AddToViews(text, entries[3])
      [] k = 4 -> AddToSources(text, entries[4])

(* The sub-steps run in the given order, each on the text the last one left. *)
RECURSIVE ApplyOrder(_, _, _)
ApplyOrder(order, text, entries) ==
    IF order = <<>> THEN text
    ELSE ApplyOrder(Tail(order), SubStep(Head(order), text, entries), entries)

(* The four sub-steps in the order of the script. *)
Patch(text, entries) == ApplyOrder(<<1, 2, 3, 4>>, text, entries)

(* ------------------------------ the script ----------------------------- *)

(* Before the script runs: the project file holds some manifest, and the   *)
(* bytes os.urandom(16) will give to the two uuid.uuid4() calls are fixed. *)
Init ==
    /\ file \in Manifests
    /\ urandom \in RunEntropy
    /\ uuid_calls = 0
    /\ pc = "read"
    /\ content = <<>>
    /\ file_ref_uuid = <<>>
    /\ build_file_uuid = <<>>
    /\ build_file_entry = ""
    /\ file_ref_entry = ""
    /\ group_entry = ""
    /\ sources_entry = ""
    /\ build_file_section = None
    /\ file_ref_section = None
    /\ views_group = None
    /\ sources_match = None
    /\ insert_pos = 0
    /\ reads = 0
    /\ writes = 0

(* The identifier generator alone: an empty project file has been read.    *)
InitUuid ==
    /\ file = <<>>
    /\ urandom \in UrandomWide \X UrandomWide
    /\ uuid_calls = 0
    /\ pc = "gen_file_ref"
    /\ content = <<>>
    /\ file_ref_uuid = <<>>
    /\ build_file_uuid = <<>>
    /\ build_file_entry = ""
    /\ file_ref_entry = ""
    /\ group_entry = ""
    /\ sources_entry = ""
    /\ build_file_section = None
    /\ file_ref_section = None
    /\ views_group = None
    /\ sources_match = None
    /\ insert_pos = 0
    /\ reads = 1
    /\ writes = 0

(* with open(project_file, 'r') as f: content = f.read() *)
ReadProject ==
    /\ pc = "read"
    /\ content' = file
    /\ reads' = reads + 1
    /\ pc' = "gen_file_ref"
    /\ UNCHANGED <<file, urandom, uuid_calls, file_ref_uuid, build_file_uuid,
                   build_file_entry, file_ref_entry, group_entry, sources_entry,
                   build_file_section, file_ref_section, views_group,
                   sources_match, insert_pos, writes>>

(* file_ref_uuid = generate_uuid() *)
GenerateFileRefUuid ==
    /\ pc = "gen_file_ref"
    /\ file_ref_uuid' = generate_uuid(urandom[uuid_calls + 1])
    /\ uuid_calls' = uuid_calls + 1
    /\ pc' = "gen_build_file"
    /\ UNCHANGED <<file, urandom, content, build_file_uuid,
                   build_file_entry, file_ref_entry, group_entry, sources_entry,
                   build_file_section, file_ref_section, views_group,
                   sources_match, insert_pos, reads, writes>>

(* build_file_uuid = generate_uuid() *)
GenerateBuildFileUuid ==
    /\ pc = "gen_build_file"
    /\ build_file_uuid' = generate_uuid(urandom[uuid_calls + 1])
    /\ uuid_calls' = uuid_calls + 1
    /\ pc' = "add_build_file"
    /\ UNCHANGED <<file, urandom, content, file_ref_uuid,
                   build_file_entry, file_ref_entry, group_entry, sources_entry,
                   build_file_section, file_ref_section, views_group,
                   sources_match, insert_pos, reads, writes>>

(* The first sub-step, which also stores the text it has made. *)
MutAddBuildFileEntrySaved ==
    /\ pc = "add_build_file"
    /\ build_file_entry' = FormatBuildFileEntry(file_ref_uuid, build_file_uuid)
    /\ build_file_section' = SearchBuildFile(content)
    /\ insert_pos' = IF build_file_section'.found THEN build_file_section'.end
                     ELSE insert_pos
    /\ content' = AddBuildFile(content, build_file_entry')
    /\ file' = content'
    /\ pc' = "add_file_ref"
    /\ UNCHANGED <<urandom, uuid_calls, file_ref_uuid, build_file_uuid,
                   file_ref_entry, group_entry, sources_entry, file_ref_section,
                   views_group, sources_match, reads, writes>>

(* 1. Add PBXBuildFile entry *)
AddBuildFileEntry ==
    /\ pc = "add_build_file"
    /\ build_file_entry' = FormatBuildFileEntry(file_ref_uuid, build_file_uuid)
    /\ build_file_section' = SearchBuildFile(content)
    /\ insert_pos' = IF build_file_section'.found THEN build_file_section'.end
                     ELSE insert_pos
    /\ content' = AddBuildFile(content, build_file_entry')
    /\ pc' = "add_file_ref"
    /\ UNCHANGED <<file, urandom, uuid_calls, file_ref_uuid, build_file_uuid,
                   file_ref_entry, group_entry, sources_entry, file_ref_section,
                   views_group, sources_match, reads, writes>>

(* 2. Add PBXFileReference entry *)
AddFileRefEntry ==
    /\ pc = "add_file_ref"
    /\ file_ref_entry' = FormatFileRefEntry(file_ref_uuid)
    /\ file_ref_section' = SearchFileRef(content)
    /\ insert_pos' = IF file_ref_section'.found THEN file_ref_section'.end
                     ELSE insert_pos
    /\ content' = AddFileRef(content, file_ref_entry')
    /\ pc' = "add_views"
    /\ UNCHANGED <<file, urandom, uuid_calls, file_ref_uuid, build_file_uuid,
                   build_file_entry, group_entry, sources_entry,
                   build_file_section, views_group, sources_match, reads, writes>>

(* 3. Add to Views group; the line is made only when the group is found. *)
AddToViewsGroup ==
    /\ pc = "add_views"
    /\ views_group' = SearchViews(content)
    /\ insert_pos' = IF views_group'.found THEN views_group'.end ELSE insert_pos
    /\ group_entry' = IF views_group'.found THEN FormatGroupEntry(file_ref_uuid)
                      ELSE group_entry
    /\ content' = AddToViews(content, group_entry')
    /\ pc' = "add_sources"
    /\ UNCHANGED <<file, urandom, uuid_calls, file_ref_uuid, build_file_uuid,
                   build_file_entry, file_ref_entry, sources_entry,
                   build_file_section, file_ref_section, sources_match, reads,
                   writes>>

(* 4. Add to Sources Build Phase; the line is made only when it is found. *)
AddToSourcesPhase ==
    /\ pc = "add_sources"
    /\ sources_match' = SearchSources(content)
    /\ insert_pos' = IF sources_match'.found THEN sources_match'.end
                     ELSE insert_pos
    /\ sources_entry' = IF sources_match'.found
                        THEN FormatSourcesEntry(build_file_uuid)
                        ELSE sources_entry
    /\ content' = AddToSources(content, sources_entry')
    /\ pc' = "open_write"
    /\ UNCHANGED <<file, urandom, uuid_calls, file_ref_uuid, build_file_uuid,
                   build_file_entry, file_ref_entry, group_entry,
                   build_file_section, file_ref_section, views_group, reads,
                   writes>>

(* open(project_file, 'w'): the file is truncated as it is opened. *)
OpenForWrite ==
    /\ pc = "open_write"
    /\ file' = <<>>
    /\ pc' = "write"
    /\ UNCHANGED <<urandom, uuid_calls, content, file_ref_uuid, build_file_uuid,
                   build_file_entry, file_ref_entry, group_entry, sources_entry,
                   build_file_section, file_ref_section, views_group,
                   sources_match, insert_pos, reads, writes>>

(* f.write(content), and the file closed *)
WriteProject ==
    /\ pc = "write"
    /\ file' = content
    /\ writes' = writes + 1
    /\ pc' = "print"
    /\ UNCHANGED <<urandom, uuid_calls, content, file_ref_uuid, build_file_uuid,
                   build_file_entry, file_ref_entry, group_entry, sources_entry,
                   build_file_section, file_ref_section, views_group,
                   sources_match, insert_pos, reads>>

(* The three print calls. *)
PrintReport ==
    /\ pc = "print"
    /\ pc' = "done"
    /\ UNCHANGED <<file, urandom, uuid_calls, content, file_ref_uuid,
                   build_file_uuid, build_file_entry, file_ref_entry,
                   group_entry, sources_entry, build_file_section,
                   file_ref_section, views_group, sources_match, insert_pos,
                   reads, writes>>

Next ==
    \/ ReadProject
    \/ GenerateFileRefUuid
    \/ GenerateBuildFileUuid
    \/ AddBuildFileEntry
    \/ AddFileRefEntry
    \/ AddToViewsGroup
    \/ AddToSourcesPhase
    \/ OpenForWrite
    \/ WriteProject
    \/ PrintReport

Spec == Init /\ [][Next]_vars

(* The patch alone, as a function of the manifest: the file has been read  *)
(* and the two identifiers, different ones, have been generated.           *)
PatchEntropy == <<Urandom(9), Urandom(62)>>

InitPatch ==
    /\ file \in Manifests
    /\ urandom = PatchEntropy
    /\ uuid_calls = 2
    /\ pc = "add_build_file"
    /\ content = file
    /\ file_ref_uuid = generate_uuid(urandom[1])
    /\ build_file_uuid = generate_uuid(urandom[2])
    /\ build_file_entry = ""
    /\ file_ref_entry = ""
    /\ group_entry = ""
    /\ sources_entry = ""
    /\ build_file_section = None
    /\ file_ref_section = None
    /\ views_group = None
    /\ sources_match = None
    /\ insert_pos = 0
    /\ reads = 1
    /\ writes = 0

NextPatch ==
    \/ AddBuildFileEntry
    \/ AddFileRefEntry
    \/ AddToViewsGroup
    \/ AddToSourcesPhase

SpecPatch == InitPatch /\ [][NextPatch]_vars

(* The two calls of the identifier generator. *)
NextUuid ==
    \/ GenerateFileRefUuid
    \/ GenerateBuildFileUuid

SpecUuid == InitUuid /\ [][NextUuid]_vars

(* ------------------------ what the claims speak of --------------------- *)

(* The four sub-steps have run and the file has not been opened for        *)
(* writing: file is the original manifest, content the patched text.       *)
PatchDone == pc = "open_write"

ID1 == IdText(file_ref_uuid)

ID2 == IdText(build_file_uuid)

(* The four lines as the interface table gives them. *)
BuildFileLine ==
    "\t\t" \o ID2 \o " /* HealthKitPermissionView.swift in Sources */ = {isa = PBXBuildFile; fileRef = "
        \o ID1 \o " /* HealthKitPermissionView.swift */; };\n"

FileRefLine ==
    "\t\t" \o ID1 \o " /* HealthKitPermissionView.swift */ = {isa = PBXFileReference; lastKnownFileType = sourcecode.swift; path = HealthKitPermissionView.swift; sourceTree = \"<group>\"; };\n"

GroupLine == "\t\t\t\t" \o ID1 \o " /* HealthKitPermissionView.swift */,\n"

SourcesLine == "\t\t\t\t" \o ID2 \o " /* HealthKitPermissionView.swift in Sources */,\n"

LineOf(k) ==
    CASE k = 1 -> BuildFileLine [] k = 2 -> FileRefLine
      [] k = 3 -> GroupLine [] k = 4 -> SourcesLine

NewLines == {LineOf(k) : k \in 1..4}

(* The chunk that ends the anchor of sub-step k. *)
AnchorEndChunk(k) ==
    CASE k = 1 -> BeginBuildFileMarker [] k = 2 -> BeginFileRefMarker
      [] k = 3 -> ChildrenOpen [] k = 4 -> SourcesPhaseHead

Count(text, c) ==
    LET chunk == c IN Cardinality({i \in 1..Len(text) : text[i] = chunk})

Without(text, S) ==
    LET drop == S IN SelectSeq(text, LAMBDA c : c \notin drop)

RECURSIVE CharLen(_)
CharLen(text) == IF text = <<>> THEN 0 ELSE Len(Head(text)) + CharLen(Tail(text))

(* The chunks at which a match of the pattern of sub-step k begins. *)
MatchStarts(k, text) ==
    CASE k = 1 -> {i \in 1..Len(text) : text[i] = BeginBuildFileMarker}
      [] k = 2 -> {i \in 1..Len(text) : text[i] = BeginFileRefMarker}
      [] k = 3 -> {i \in 1..Len(text) :
                      /\ text[i] = ViewsHead
                      /\ \E j \in (i + 1)..Len(text) :
                            /\ text[j] = ChildrenOpen
                            /\ \A n \in (i + 1)..(j - 1) : ~HasClosingBrace(text[n])}
      [] k = 4 -> {i \in 1..Len(text) : text[i] = SourcesPhaseHead}

(* The text contains the anchor of sub-step k. *)
HasAnchor(k, text) == MatchStarts(k, text) # {}

AllFourAnchors(text) == \A k \in 1..4 : HasAnchor(k, text)

(* Where the leftmost match of the pattern of sub-step k ends. *)
FirstMatchEnd(k, text) ==
    LET i == MinOf(MatchStarts(k, text))
    IN  IF k \in {1, 2} THEN i
        ELSE MaxOf({j \in i..Len(text) :
                       /\ text[j] = AnchorEndChunk(k)
                       /\ \A n \in (i + 1)..(j - 1) : ~HasClosingBrace(text[n])})

(* The region of the text that the anchor of sub-step k matches. *)
AnchorRegion(k, text) ==
    CASE k = 1 -> SearchBuildFile(text) [] k = 2 -> SearchFileRef(text)
      [] k = 3 -> SearchViews(text) [] k = 4 -> SearchSources(text)

Overlap(m, n) == m.found /\ n.found /\ m.start < n.end /\ n.start < m.end

(* No two of the anchor regions of the text share a character. *)
DisjointAnchors(text) ==
    \A k \in 1..4 : \A l \in (k + 1)..4 :
        ~Overlap(AnchorRegion(k, text), AnchorRegion(l, text))

(* Line k is in the text once, directly after a chunk that ends its anchor. *)
InSection(k, text) ==
    LET line == LineOf(k)
    IN  /\ Count(text, line) = 1
        /\ \E p \in 1..(Len(text) - 1) :
              text[p] = AnchorEndChunk(k) /\ text[p + 1] = line

Orders == {o \in [1..4 -> 1..4] : \A a, b \in 1..4 : o[a] = o[b] => a = b}

(* ------------------------------- claims -------------------------------- *)

(* Exactly four new lines, one per section and each in its section's       *)
(* format, and the original text is what is left when they are deleted.    *)
FourLinesInserted ==
    /\ Len(content) = Len(file) + 4
    /\ \A k \in 1..4 : InSection(k, content)
    /\ Without(content, NewLines) = file

(* C1 as stated: for every manifest that contains all four anchors, the    *)
(* patch inserts exactly four new lines, one per section and each in the   *)
(* format of its section, and deleting them gives back the original text.  *)
C1_AllAnchorsFourLines ==
    (PatchDone /\ AllFourAnchors(file)) => FourLinesInserted

(* C1 amended: for every manifest that contains all four anchors in        *)
(* pairwise disjoint regions, the patch inserts exactly four new lines,    *)
(* one per section and each in the format of its section, and deleting     *)
(* them gives back the original text.                                      *)
C1_DisjointAnchorsFourLines ==
    (PatchDone /\ AllFourAnchors(file) /\ DisjointAnchors(file))
        => FourLinesInserted

C1_Witness ==
    /\ PatchDone
    /\ AllFourAnchors(file)
    /\ DisjointAnchors(file)
    /\ file_ref_uuid # build_file_uuid
    /\ FourLinesInserted

(* One line for each anchor the manifest contains, none for the others,    *)
(* and nothing else changed.                                               *)
OneLinePerPresentAnchor ==
    /\ \A k \in 1..4 :
          Count(content, LineOf(k)) = (IF HasAnchor(k, file) THEN 1 ELSE 0)
    /\ Len(content) = Len(file) + Cardinality({k \in 1..4 : HasAnchor(k, file)})
    /\ Without(content, NewLines) = file

(* C2 as stated: for every manifest and every subset of the four anchors   *)
(* absent from it, the patch runs through all four sub-steps and inserts   *)
(* exactly one line for each anchor that is present and nothing for each   *)
(* anchor that is absent.                                                  *)
C2_MissingAnchorSkipped == PatchDone => OneLinePerPresentAnchor

(* C2 amended: the same for every manifest in which the anchors that are   *)
(* present match pairwise disjoint regions.                                *)
C2_DisjointMissingAnchorSkipped ==
    (PatchDone /\ DisjointAnchors(file)) => OneLinePerPresentAnchor

(* The Views group is the one anchor missing: three lines are inserted. *)
C2_Witness ==
    /\ PatchDone
    /\ DisjointAnchors(file)
    /\ {k \in 1..4 : HasAnchor(k, file)} = {1, 2, 4}
    /\ Len(content) = Len(file) + 3
    /\ Count(content, GroupLine) = 0

(* The step from text to text' found the match m and spliced the line     *)
(* right after its end, which is behind its start: text' is text up to the *)
(* end of the match, the line, and the rest of text.                       *)
SplicedAfterMatch(text, m, line, text2) ==
    m.found =>
        /\ m.start < m.end
        /\ m.end <= Len(text)
        /\ Len(text2) = Len(text) + 1
        /\ text2[m.end + 1] = line
        /\ \A i \in 1..m.end : text2[i] = text[i]
        /\ \A i \in (m.end + 1)..Len(text) : text2[i + 1] = text[i]

(* In the patched text every inserted line directly follows a chunk that   *)
(* ends its anchor, and the build-file section begins with the build-file  *)
(* line, ahead of what the section held.                                   *)
LinesFollowAnchors ==
    /\ build_file_section.found => InSection(1, content)
    /\ file_ref_section.found => InSection(2, content)
    /\ views_group.found => InSection(3, content)
    /\ sources_match.found => InSection(4, content)
    /\ HasAnchor(1, file) =>
          LET i == MinOf(MatchStarts(1, file))
              j == MinOf(MatchStarts(1, content))
          IN  /\ content[j + 1] = BuildFileLine
              /\ i < Len(file) => content[j + 2] = file[i + 1]

(* C3: in each of the four sub-steps, when the anchor is found the new     *)
(* line is spliced at the position immediately after the end of the        *)
(* matched anchor text, so in the final output each inserted line directly *)
(* follows its anchor and precedes every entry the section already had;    *)
(* the patched build-file section begins with the new build-file line.     *)
C3_SplicedAfterAnchor ==
    /\ [][/\ (pc = "add_build_file" /\ pc' = "add_file_ref") =>
                SplicedAfterMatch(content, build_file_section', BuildFileLine, content')
          /\ (pc = "add_file_ref" /\ pc' = "add_views") =>
                SplicedAfterMatch(content, file_ref_section', FileRefLine, content')
          /\ (pc = "add_views" /\ pc' = "add_sources") =>
                SplicedAfterMatch(content, views_group', GroupLine, content')
          /\ (pc = "add_sources" /\ pc' = "open_write") =>
                SplicedAfterMatch(content, sources_match', SourcesLine, content')]_vars
    /\ [](PatchDone => LinesFollowAnchors)

(* The build-file line went in after the marker and ahead of an entry the  *)
(* section already had.                                                    *)
C3_Witness ==
    /\ pc = "add_file_ref"
    /\ build_file_section.found
    /\ build_file_section.end < Len(file)
    /\ content[build_file_section.end + 1] = BuildFileLine
    /\ content[build_file_section.end + 2] = file[build_file_section.end + 1]

(* The four lines that a run with the identifiers of this run inserts. *)
RunLines ==
    <<FormatBuildFileEntry(file_ref_uuid, build_file_uuid),
      FormatFileRefEntry(file_ref_uuid),
      FormatGroupEntry(file_ref_uuid),
      FormatSourcesEntry(build_file_uuid)>>

(* The text after a second application of the patch, same identifiers. *)
PatchedTwice == Patch(content, RunLines)

EveryLineTwice ==
    /\ PatchedTwice # content
    /\ \A k \in 1..4 : Count(PatchedTwice, LineOf(k)) = 2
    /\ Len(PatchedTwice) = Len(file) + 8
    /\ Without(PatchedTwice, NewLines) = file

(* C4 as stated: applying the patch twice with the same file name and      *)
(* identifiers to a manifest that contains all four anchors (and none of   *)
(* the new lines) gives a text different from applying it once, in which   *)
(* each of the four inserted lines occurs exactly twice.                   *)
C4_NotIdempotent == (PatchDone /\ AllFourAnchors(file)) => EveryLineTwice

(* C4 amended: the same for a manifest that contains all four anchors in   *)
(* pairwise disjoint regions.                                              *)
C4_DisjointNotIdempotent ==
    (PatchDone /\ AllFourAnchors(file) /\ DisjointAnchors(file)) => EveryLineTwice

C4_Witness ==
    /\ PatchDone
    /\ AllFourAnchors(file)
    /\ DisjointAnchors(file)
    /\ Count(content, GroupLine) = 1
    /\ Count(PatchedTwice, GroupLine) = 2

(* C5: for every manifest whose anchor regions are pairwise disjoint, the  *)
(* four sub-steps run in any of the 24 orders, each on the text left by    *)
(* the one before, give the text that the order of the script gives.       *)
C5_OrderIrrelevant ==
    (PatchDone /\ DisjointAnchors(file)) =>
        LET lines == RunLines
        IN  \A o \in Orders : ApplyOrder(o, file, lines) = content

(* All four anchors present: the reverse order gives the same four lines. *)
C5_Witness ==
    /\ PatchDone
    /\ AllFourAnchors(file)
    /\ DisjointAnchors(file)
    /\ Len(content) = Len(file) + 4
    /\ ApplyOrder(<<4, 3, 2, 1>>, file, RunLines) = content

(* Sub-step k took the text from before to after: it looked for its anchor *)
(* in before; found, the text grew by the length of its line; not found,   *)
(* the text is the same.                                                   *)
GrewByLine(k, before, found, after) ==
    /\ found = HasAnchor(k, before)
    /\ found => CharLen(after) = CharLen(before) + Len(LineOf(k))
    /\ ~found => after = before
    /\ CharLen(after) >= CharLen(before)

(* C6: across the four sub-steps the length of the text never decreases,   *)
(* and every sub-step searches the text produced by the previous sub-step: *)
(* with its anchor found there the length grows by exactly the length of   *)
(* its line, and with its anchor not found there the text is unchanged.    *)
C6_LengthGrowsOnCurrentText ==
    [][/\ (pc = "add_build_file" /\ pc' = "add_file_ref") =>
             GrewByLine(1, content, build_file_section'.found, content')
       /\ (pc = "add_file_ref" /\ pc' = "add_views") =>
             GrewByLine(2, content, file_ref_section'.found, content')
       /\ (pc = "add_views" /\ pc' = "add_sources") =>
             GrewByLine(3, content, views_group'.found, content')
       /\ (pc = "add_sources" /\ pc' = "open_write") =>
             GrewByLine(4, content, sources_match'.found, content')]_vars

(* The Views anchor was found further on than it lies in the original      *)
(* text: its offset is one in the text that earlier sub-steps lengthened.  *)
C6_Witness ==
    /\ pc = "add_sources"
    /\ views_group.found
    /\ views_group.end > FirstMatchEnd(3, file)
    /\ CharLen(content) > CharLen(file) + Len(GroupLine)

(* One read, before the first sub-step, and one write, after the fourth.   *)
ReadOnceWriteOnce ==
    /\ reads = (IF pc = "read" THEN 0 ELSE 1)
    /\ writes = (IF pc \in {"print", "done"} THEN 1 ELSE 0)

(* C9 as stated: the project file is read exactly once before any sub-step *)
(* and written exactly once after all four, and in every state before the  *)
(* write the stored file still equals the original manifest: as long as    *)
(* nothing has been written the stored file does not change.               *)
C9_UntouchedBeforeWrite ==
    /\ [][writes' = 0 => file' = file]_vars
    /\ []ReadOnceWriteOnce

(* C9 amended: the project file is read exactly once before any sub-step   *)
(* and written exactly once after all four.  In every state before the     *)
(* file is opened for writing the stored file still equals the original    *)
(* manifest; the open empties it and it stays empty until the write, which *)
(* stores the text left by the fourth sub-step.  No other text is ever     *)
(* stored, so none that carries only some of the insertions.               *)
C9_UntouchedBeforeOpen ==
    /\ [][pc' \notin {"write", "print", "done"} => file' = file]_vars
    /\ [][file' # file =>
             \/ pc = "open_write" /\ file' = <<>>
             \/ pc = "write" /\ file' = content]_vars
    /\ [](/\ ReadOnceWriteOnce
          /\ pc = "write" => file = <<>>
          /\ pc \in {"print", "done"} => file = content)

(* The file is open for writing: a manifest that was not empty has been    *)
(* patched in memory, nothing has been written, and the stored file is     *)
(* empty.                                                                  *)
C9_Witness ==
    /\ pc = "write"
    /\ writes = 0
    /\ file = <<>>
    /\ Without(content, NewLines) # <<>>
    /\ content # Without(content, NewLines)

(* Sub-step k took the text from before to after; when its pattern has a   *)
(* match that begins behind the end of the leftmost one, the line was put  *)
(* after the leftmost match only.                                          *)
OnlyFirstMatch(k, before, after) ==
    (/\ HasAnchor(k, before)
     /\ \E i \in MatchStarts(k, before) : i > FirstMatchEnd(k, before)) =>
        /\ Len(after) = Len(before) + 1
        /\ after[FirstMatchEnd(k, before) + 1] = LineOf(k)
        /\ Count(after, LineOf(k)) = 1

(* C10: when an anchor pattern matches at more than one place, the         *)
(* sub-step inserts its line only after the first (leftmost) match and     *)
(* leaves every later match without a new line.                            *)
C10_FirstMatchOnly ==
    [][/\ (pc = "add_build_file" /\ pc' = "add_file_ref") =>
             OnlyFirstMatch(1, content, content')
       /\ (pc = "add_file_ref" /\ pc' = "add_views") =>
             OnlyFirstMatch(2, content, content')
       /\ (pc = "add_views" /\ pc' = "add_sources") =>
             OnlyFirstMatch(3, content, content')
       /\ (pc = "add_sources" /\ pc' = "open_write") =>
             OnlyFirstMatch(4, content, content')]_vars

(* Two Sources build phases: the line follows the first one only. *)
C10_Witness ==
    /\ PatchDone
    /\ sources_match.found
    /\ content[sources_match.end + 1] = SourcesLine
    /\ \E i \in (sources_match.end + 2)..Len(content) :
          /\ content[i] = SourcesPhaseHead
          /\ (i = Len(content) \/ content[i + 1] # SourcesLine)

(* A string of exactly 24 characters, each of 0-9 or A-F. *)
WellFormedId(id) ==
    /\ Len(id) = 24
    /\ \A i \in 1..Len(id) : id[i] \in HexUpperChars

(* C7: every call of the identifier generator returns a string of exactly  *)
(* 24 characters, each one of 0-9 or A-F.                                  *)
C7_IdWellFormed ==
    /\ uuid_calls >= 1 => WellFormedId(file_ref_uuid)
    /\ uuid_calls >= 2 => WellFormedId(build_file_uuid)

(* Both identifiers are generated and one of them holds a letter. *)
C7_Witness ==
    /\ uuid_calls = 2
    /\ WellFormedId(file_ref_uuid)
    /\ WellFormedId(build_file_uuid)
    /\ \E i \in 1..Len(build_file_uuid) : build_file_uuid[i] = "F"

(* C8 as stated: the two identifiers generated within one invocation are   *)
(* never equal to each other.                                              *)
C8_IdsNeverEqual == uuid_calls = 2 => file_ref_uuid # build_file_uuid

(* C8 amended: the two identifiers generated within one invocation are     *)
(* equal exactly when the two random UUIDs they are cut from agree in      *)
(* their first 24 hexadecimal digits.                                      *)
C8_IdsEqualOnlyOnCollision ==
    uuid_calls = 2 =>
        ((file_ref_uuid = build_file_uuid)
            <=> (\A i \in 1..24 :
                    Uuid4(urandom[1])[i] = Uuid4(urandom[2])[i]))

(* Two different random UUIDs gave two different identifiers. *)
C8_Witness ==
    /\ uuid_calls = 2
    /\ Uuid4(urandom[1]) # Uuid4(urandom[2])
    /\ file_ref_uuid # build_file_uuid

====
